---- MODULE Spec2Model ----
(***************************************************************************)
(* One run of export/printsmith_export.py: main() connects, resolves the   *)
(* reporting period, runs the core queries, asks the history endpoint for  *)
(* recently shown accounts, runs the day's insight generators, assembles   *)
(* the payload and posts (or prints) it.                                   *)
(*                                                                         *)
(* Dates are proleptic ordinals (date.toordinal()).  Account ids are       *)
(* positive integers; NULL (0) is a missing account id; the characters of  *)
(* a JSON string are negated code points, so that set("ab") is a set of    *)
(* values no account id equals.                                            *)
(***************************************************************************)
EXTENDS Integers, Sequences, FiniteSets, TLC

VARIABLES pc, dry_run, env, today, db, conn, closeCount,
          start_date, end_date, is_weekend_catchup, q,
          invoice_data, estimate_data,
          history, recently_shown, today_types, idx, insights, calls,
          export_data, postCount, delivery, exit_status,
          day_of_week, run, store, prev_surfaced,
          pm_daily_data, bd_daily_data

vars == <<pc, dry_run, env, today, db, conn, closeCount,
          start_date, end_date, is_weekend_catchup, q,
          invoice_data, estimate_data,
          history, recently_shown, today_types, idx, insights, calls,
          export_data, postCount, delivery, exit_status,
          day_of_week, run, store, prev_surfaced,
          pm_daily_data, bd_daily_data>>

(***************************** bounds **************************************)
NumAccounts == 4
MaxRows == 9
MaxFailRow == 2
MaxFirst == 1
MaxHistory == 2
NumDays == 7
FirstDay == 738886

(************************* program constants *******************************)
EXCLUDED_ACCOUNT_IDS == {20960, 17204}

NULL == 0

LIMIT == 5
TOP_INVOICES == 3
TOP_ESTIMATES == 2
ESTIMATES_KEPT == 10
NumCoreQueries == 11

ANNIVERSARY_MIN == 2000
LAPSED_MIN == 5000
HOT_STREAK_MIN == 1000
HIGH_VALUE_MIN == 1000

\* mutant: Tuesday's and Friday's lists lose past_due_accounts
INSIGHT_ROTATION_NoPastDue ==
  [d \in 0..6 |->
     CASE d = 0 -> <<"anniversary_reorders", "hot_streak_accounts", "high_value_estimates">>
       [] d = 1 -> <<"lapsed_accounts">>
       [] d = 2 -> <<"hot_streak_accounts", "anniversary_reorders">>
       [] d = 3 -> <<"high_value_estimates", "lapsed_accounts">>
       [] d = 4 -> <<"hot_streak_accounts", "anniversary_reorders">>
       [] d = 5 -> <<"lapsed_accounts", "high_value_estimates">>
       [] d = 6 -> <<"anniversary_reorders", "lapsed_accounts">>]

INSIGHT_ROTATION ==
  [d \in 0..6 |->
     CASE d = 0 -> <<"anniversary_reorders", "hot_streak_accounts", "high_value_estimates">>
       [] d = 1 -> <<"lapsed_accounts", "past_due_accounts">>
       [] d = 2 -> <<"hot_streak_accounts", "anniversary_reorders">>
       [] d = 3 -> <<"high_value_estimates", "lapsed_accounts">>
       [] d = 4 -> <<"past_due_accounts", "hot_streak_accounts", "anniversary_reorders">>
       [] d = 5 -> <<"lapsed_accounts", "high_value_estimates">>
       [] d = 6 -> <<"anniversary_reorders", "lapsed_accounts">>]

INSIGHT_FUNCTIONS ==
  <<"anniversary_reorders", "lapsed_accounts", "past_due_accounts",
    "hot_streak_accounts", "high_value_estimates">>

(***************************** helpers *************************************)
Range(s) == {s[i] : i \in 1..Len(s)}

Min(a, b) == IF a < b THEN a ELSE b

\* s[:n]
Take(s, n) == SubSeq(s, 1, Min(n, Len(s)))

\* first occurrence of every account (GROUP BY account_id)
GroupByAccount(s) ==
  SelectSeq([i \in 1..Len(s) |->
               [r |-> s[i],
                first |-> \A j \in 1..(i-1) : s[j].account_id # s[i].account_id]],
            LAMBDA x : x.first)

\* date.weekday(): Monday is 0
weekday(d) == (d + 6) % 7

(*************************** the data source *******************************)
Amounts == {1500, 6000}

Ring == [i \in 1..(NumAccounts + 3) |->
           IF i <= NumAccounts THEN i
           ELSE IF i = NumAccounts + 1 THEN NULL
           ELSE IF i = NumAccounts + 2 THEN 20960 ELSE 17204]

DataSources == [first : 0..MaxFirst, rows : 0..MaxRows, amount : Amounts]

\* the rows of one table: account ids follow the ring from a table-specific start
Table(shift) ==
  [i \in 1..db.rows |->
     [account_id |-> Ring[((db.first + shift + i - 1) % Len(Ring)) + 1],
      amount |-> db.amount]]

Grouped(t) == t \in {"lapsed_accounts", "past_due_accounts", "hot_streak_accounts"}

Qualifies(t, r) ==
  CASE t = "anniversary_reorders" -> r.amount >= ANNIVERSARY_MIN
    [] t = "lapsed_accounts"      -> r.amount >= LAPSED_MIN
    [] t = "past_due_accounts"    -> r.amount > 0
    [] t = "hot_streak_accounts"  -> r.amount >= HOT_STREAK_MIN
    [] t = "high_value_estimates" -> r.amount >= HIGH_VALUE_MIN

\* mutant: the NOT IN clause is missing from the query
Query_NoFilter(t, all_excluded) ==
  LET pass == SelectSeq(Table(0), LAMBDA r : Qualifies(t, r) /\ r.account_id # NULL)
      rows == IF Grouped(t)
              THEN [i \in 1..Len(GroupByAccount(pass)) |-> GroupByAccount(pass)[i].r]
              ELSE pass
  IN  Take(rows, LIMIT)

\* WHERE <threshold> AND account_id NOT IN all_excluded ... LIMIT 5
\* (NULL NOT IN (...) is not true in SQL, so a NULL account never passes)
Query(t, all_excluded) ==
  LET base == Table(0)
      pass == SelectSeq(base, LAMBDA r : /\ Qualifies(t, r)
                                         /\ r.account_id # NULL
                                         /\ r.account_id \notin all_excluded)
      rows == IF Grouped(t)
              THEN [i \in 1..Len(GroupByAccount(pass)) |-> GroupByAccount(pass)[i].r]
              ELSE pass
  IN  Take(rows, LIMIT)

(************************* insight generators ******************************)
None == [type |-> "None", items |-> <<>>]

\* where a generator call fails: -1 nowhere, 0 in cur.execute, k >= 1 while
\* converting the k-th fetched row
NoFailure == -1
FailPoints == NoFailure..MaxFailRow

\* mutant: the filter is the permanent exclusions alone
AllExcluded_OnlyPermanent(exclude_account_ids) == EXCLUDED_ACCOUNT_IDS

\* mutant: the filter starts from an empty set, not from EXCLUDED_ACCOUNT_IDS
AllExcluded_OnlyRecent(exclude_account_ids) == exclude_account_ids

\* all_excluded = set(EXCLUDED_ACCOUNT_IDS); all_excluded.update(exclude_account_ids)
AllExcluded(exclude_account_ids) == EXCLUDED_ACCOUNT_IDS \cup exclude_account_ids

\* mutant: the generator adds the permanent exclusions to the caller's set
ExcludeArgAfter_UpdatedInPlace(exclude_account_ids) ==
  exclude_account_ids \cup EXCLUDED_ACCOUNT_IDS

\* the caller's exclude_account_ids after a generator call: all_excluded is a new
\* set, and update() changes that copy only
ExcludeArgAfter(exclude_account_ids) == exclude_account_ids

\* cur.execute(query, (..., tuple(all_excluded) or (0,))); rows = cur.fetchall()
Fetched(t, exclude_account_ids, fail) ==
  IF fail = 0 THEN <<>> ELSE Query(t, AllExcluded(exclude_account_ids))

\* whether the except clause of the generator is entered
Raises(t, exclude_account_ids, fail) ==
  fail = 0 \/ fail \in 1..Len(Fetched(t, exclude_account_ids, fail))

\* the rows appended to items before the except clause is entered
Appended(rows, fail) ==
  IF fail \in 1..Len(rows) THEN SubSeq(rows, 1, fail - 1) ELSE rows

\* r.recent_count and COALESCE(p.prior_count, 0) of the hot-streak query for the
\* account of row r; recent_count > prior_count in every row the query returns
recent_count(r) == (4 + r.account_id) - (db.first % 2)

prior_count(r) == IF db.first = 0 THEN 2 ELSE 0

Digit(d) ==
  CASE d = 0 -> "0" [] d = 1 -> "1" [] d = 2 -> "2" [] d = 3 -> "3" [] d = 4 -> "4"
    [] d = 5 -> "5" [] d = 6 -> "6" [] d = 7 -> "7" [] d = 8 -> "8" [] d = 9 -> "9"

\* str(n) of a natural number, as an f-string formats it
RECURSIVE Str(_)
Str(n) == IF n < 10 THEN Digit(n) ELSE Str(n \div 10) \o Digit(n % 10)

\* mutant: the two counts change places in the text
HotStreakDetail_Swapped(recent, prior) ==
  Str(prior) \o " orders (was " \o Str(recent) \o ")"

\* f"{recent} orders (was {prior})"
HotStreakDetail(recent, prior) ==
  Str(recent) \o " orders (was " \o Str(prior) \o ")"

\* the dict appended to items for one row; the detail text is modelled for the
\* hot-streak generator
Item(t, r) ==
  IF t = "hot_streak_accounts"
  THEN [account_id |-> r.account_id, amount |-> r.amount,
        detail |-> HotStreakDetail(recent_count(r), prior_count(r))]
  ELSE [account_id |-> r.account_id, amount |-> r.amount]

\* mutant: the block is returned without the "if items" test
Generator_NoEmptyCheck(t, exclude_account_ids, fail) ==
  LET rows  == Appended(Fetched(t, exclude_account_ids, fail), fail)
  IN  [type |-> t, items |-> [i \in 1..Len(rows) |-> Item(t, rows[i])]]

\* items = []; try: execute, fetchall, append per row; except: log;
\* if items: return block; return None
Generator(t, exclude_account_ids, fail) ==
  LET rows  == Appended(Fetched(t, exclude_account_ids, fail), fail)
      items == [i \in 1..Len(rows) |-> Item(t, rows[i])]
  IN  IF Len(items) > 0 THEN [type |-> t, items |-> items] ELSE None

get_anniversary_reorders(exclude_account_ids, fail) ==
  Generator("anniversary_reorders", exclude_account_ids, fail)

get_lapsed_accounts(exclude_account_ids, fail) ==
  Generator("lapsed_accounts", exclude_account_ids, fail)

get_past_due_accounts(exclude_account_ids, fail) ==
  Generator("past_due_accounts", exclude_account_ids, fail)

get_hot_streak_accounts(exclude_account_ids, fail) ==
  Generator("hot_streak_accounts", exclude_account_ids, fail)

get_high_value_pending_estimates(exclude_account_ids, fail) ==
  Generator("high_value_estimates", exclude_account_ids, fail)

\* INSIGHT_FUNCTIONS.get(insight_type) applied to (conn, exclude_account_ids)
CallInsight(t, exclude_account_ids, fail) ==
  CASE t = "anniversary_reorders" -> get_anniversary_reorders(exclude_account_ids, fail)
    [] t = "lapsed_accounts"      -> get_lapsed_accounts(exclude_account_ids, fail)
    [] t = "past_due_accounts"    -> get_past_due_accounts(exclude_account_ids, fail)
    [] t = "hot_streak_accounts"  -> get_hot_streak_accounts(exclude_account_ids, fail)
    [] t = "high_value_estimates" -> get_high_value_pending_estimates(exclude_account_ids, fail)

\* INSIGHT_ROTATION.get(day_of_week, list(INSIGHT_FUNCTIONS.keys()))
\* mutant: an unmapped weekday gets an empty list
TodayTypes_NoFallback(d) ==
  IF d \in DOMAIN INSIGHT_ROTATION THEN INSIGHT_ROTATION[d] ELSE <<>>

TodayTypes(d) ==
  IF d \in DOMAIN INSIGHT_ROTATION THEN INSIGHT_ROTATION[d] ELSE INSIGHT_FUNCTIONS

\* mutant: a block is put in front of the list
Gathered_Prepend(list, result) == IF result # None THEN <<result>> \o list ELSE list

\* if result: insights.append(result)
Gathered(list, result) == IF result # None THEN Append(list, result) ELSE list

(************************** the history endpoint ***************************)
Chars == <<-97, -98>>

Absent == [t |-> "absent", v |-> <<>>]

\* the JSON lists the endpoint may answer with
IdLists == {SubSeq(Ring, 1, n) : n \in 0..MaxHistory}

IdValues ==
  {Absent, [t |-> "null", v |-> <<>>], [t |-> "number", v |-> <<>>]}
  \cup {[t |-> "string", v |-> SubSeq(Chars, 1, n)] : n \in 0..Len(Chars)}
  \cup {[t |-> "list", v |-> l] : l \in IdLists}

\* what a response body may be: not JSON, JSON that is no object, or an object
\* with some accountIds; accountNames a list of strings, or of something else
Bodies ==
  {[body |-> b, ids |-> Absent, names |-> "strings"] : b \in {"not_json", "not_object"}}
  \cup {[body |-> "object", ids |-> i, names |-> "strings"] : i \in IdValues}
  \cup {[body |-> "object", ids |-> [t |-> "list", v |-> l], names |-> "non_strings"] :
          l \in IdLists}

\* requests.get either raises (connection error, timeout) or returns a response
\* with a status, 2xx ("ok") or not ("http_error"), and a body
HistoryResponses ==
  {[status |-> s, body |-> "none", ids |-> Absent, names |-> "strings"] :
     s \in {"conn_error", "timeout"}}
  \cup {[status |-> "ok", body |-> x.body, ids |-> x.ids, names |-> x.names] :
          x \in Bodies}
  \cup {[status |-> "http_error", body |-> "object", ids |-> [t |-> "list", v |-> l],
          names |-> "strings"] : l \in IdLists}

NoRequest == [status |-> "not_called", body |-> "none", ids |-> Absent, names |-> "strings"]

\* set(x): the elements of a list, the characters of a string, TypeError otherwise
PySet(x) ==
  IF x.t \in {"list", "string", "absent"}
  THEN [raised |-> FALSE, val |-> Range(x.v)]
  ELSE [raised |-> TRUE, val |-> {}]

\* mutant: response.raise_for_status() is missing
get_recently_shown_accounts_NoStatusCheck(resp) ==
  IF resp.status \notin {"ok", "http_error"} THEN {}
  ELSE IF resp.body # "object" THEN {}
  ELSE IF PySet(resp.ids).raised THEN {}
  ELSE IF resp.names = "non_strings" THEN {}
  ELSE PySet(resp.ids).val

\* requests.get raises RequestException, raise_for_status raises HTTPError,
\* response.json() / data.get / set(...) / ', '.join(...) raise: all return set()
get_recently_shown_accounts(resp) ==
  IF resp.status # "ok" THEN {}
  ELSE IF resp.body # "object" THEN {}
  ELSE IF PySet(resp.ids).raised THEN {}
  ELSE IF resp.names = "non_strings" THEN {}
  ELSE PySet(resp.ids).val

(****************************** period *************************************)
\* mutant: Monday's span starts on Saturday
get_target_date_range_TwoDays(d) ==
  LET yesterday == d - 1
  IN  IF weekday(d) = 0
      THEN [start_date |-> yesterday - 1, end_date |-> yesterday, catchup |-> TRUE]
      ELSE [start_date |-> yesterday, end_date |-> yesterday, catchup |-> FALSE]

get_target_date_range(d) ==
  LET yesterday == d - 1
  IN  IF weekday(d) = 0
      THEN [start_date |-> yesterday - 2, end_date |-> yesterday, catchup |-> TRUE]
      ELSE [start_date |-> yesterday, end_date |-> yesterday, catchup |-> FALSE]

(***************************** assembly ************************************)
NotExcluded(records) ==
  SelectSeq(records, LAMBDA r : r.account_id \notin EXCLUDED_ACCOUNT_IDS)

\* mutant: the lists are cut to their top 3 and top 2 before they are filtered
generate_highlights_SliceFirst(invoices, top_estimates) ==
  LET inv == NotExcluded(Take(invoices, TOP_INVOICES))
      est == NotExcluded(Take(top_estimates, TOP_ESTIMATES))
  IN  [i \in 1..Len(inv) |-> [type |-> "invoice", account_id |-> inv[i].account_id]]
      \o [i \in 1..Len(est) |-> [type |-> "estimate", account_id |-> est[i].account_id]]

generate_highlights(invoices, top_estimates) ==
  LET inv == Take(NotExcluded(invoices), TOP_INVOICES)
      est == Take(NotExcluded(top_estimates), TOP_ESTIMATES)
  IN  [i \in 1..Len(inv) |-> [type |-> "invoice", account_id |-> inv[i].account_id]]
      \o [i \in 1..Len(est) |-> [type |-> "estimate", account_id |-> est[i].account_id]]

\* if x.get('account_id'): shown_account_ids.add(x['account_id'])
Truthy(ids) == {a \in ids : a # NULL}

\* mutant: the ids of the highlighted estimates are not collected
ShownAccountIds_NoEstimates(invoices, top_estimates, ai_insights) ==
  Truthy({r.account_id : r \in Range(Take(NotExcluded(invoices), TOP_INVOICES))})
  \cup Truthy(UNION {{it.account_id : it \in Range(b.items)} : b \in Range(ai_insights)})

\* mutant: the invoice and estimate ids are collected without the exclusion filter
ShownAccountIds_Unfiltered(invoices, top_estimates, ai_insights) ==
  Truthy({r.account_id : r \in Range(Take(invoices, TOP_INVOICES))})
  \cup Truthy({r.account_id : r \in Range(Take(top_estimates, TOP_ESTIMATES))})
  \cup Truthy(UNION {{it.account_id : it \in Range(b.items)} : b \in Range(ai_insights)})

\* mutant: the ids of the insight items are not collected
ShownAccountIds_HighlightsOnly(invoices, top_estimates, ai_insights) ==
  Truthy({r.account_id : r \in Range(Take(NotExcluded(invoices), TOP_INVOICES))})
  \cup Truthy({r.account_id : r \in Range(Take(NotExcluded(top_estimates), TOP_ESTIMATES))})

ShownAccountIds(invoices, top_estimates, ai_insights) ==
  Truthy({r.account_id : r \in Range(Take(NotExcluded(invoices), TOP_INVOICES))})
  \cup Truthy({r.account_id : r \in Range(Take(NotExcluded(top_estimates), TOP_ESTIMATES))})
  \cup Truthy(UNION {{it.account_id : it \in Range(b.items)} : b \in Range(ai_insights)})

\* top_pm = None; if pm_daily_data: top = pm_daily_data[0]; top_pm = {...}
\* (None is the empty sequence, the dict a sequence of one record)
top_pm(pm_daily) ==
  IF pm_daily # <<>>
  THEN <<[name |-> pm_daily[1].pm_name,
          ordersCompleted |-> pm_daily[1].completed_count,
          revenue |-> pm_daily[1].completed_revenue]>>
  ELSE <<>>

\* mutant: the top BD is the last entry of the list
top_bd_Last(bd_daily) ==
  IF bd_daily # <<>>
  THEN <<[name |-> bd_daily[Len(bd_daily)].bd_name,
          ordersCompleted |-> bd_daily[Len(bd_daily)].completed_count,
          revenue |-> bd_daily[Len(bd_daily)].completed_revenue]>>
  ELSE <<>>

top_bd(bd_daily) ==
  IF bd_daily # <<>>
  THEN <<[name |-> bd_daily[1].bd_name,
          ordersCompleted |-> bd_daily[1].completed_count,
          revenue |-> bd_daily[1].completed_revenue]>>
  ELSE <<>>

NoPayload ==
  [assembled |-> FALSE, highlights |-> <<>>, biggestOrder |-> <<>>, aiInsights |-> <<>>,
   topPM |-> <<>>, topBD |-> <<>>,
   shownInsights |-> [accountIds |-> {}, insightTypes |-> {}]]

\* mutant: biggestOrder is taken from the invoices left after the exclusion filter
assemble_export_data_FilteredBiggest(invoices, top_estimates, ai_insights, pm_daily, bd_daily) ==
  [assembled |-> TRUE,
   highlights |-> generate_highlights(invoices, top_estimates),
   biggestOrder |-> Take(NotExcluded(invoices), 1),
   topPM |-> top_pm(pm_daily),
   topBD |-> top_bd(bd_daily),
   aiInsights |-> ai_insights,
   shownInsights |->
     [accountIds |-> ShownAccountIds(invoices, top_estimates, ai_insights),
      insightTypes |-> {b.type : b \in Range(ai_insights)}]]

\* mutant: insightTypes lists the types attempted, not the types emitted
assemble_export_data_AttemptedTypes(invoices, top_estimates, ai_insights, pm_daily, bd_daily) ==
  [assembled |-> TRUE,
   highlights |-> generate_highlights(invoices, top_estimates),
   biggestOrder |-> Take(invoices, 1),
   topPM |-> top_pm(pm_daily),
   topBD |-> top_bd(bd_daily),
   aiInsights |-> ai_insights,
   shownInsights |->
     [accountIds |-> ShownAccountIds(invoices, top_estimates, ai_insights),
      insightTypes |-> Range(today_types)]]

assemble_export_data(invoices, top_estimates, ai_insights, pm_daily, bd_daily) ==
  [assembled |-> TRUE,
   highlights |-> generate_highlights(invoices, top_estimates),
   biggestOrder |-> Take(invoices, 1),
   topPM |-> top_pm(pm_daily),
   topBD |-> top_bd(bd_daily),
   aiInsights |-> ai_insights,
   shownInsights |->
     [accountIds |-> ShownAccountIds(invoices, top_estimates, ai_insights),
      insightTypes |-> {b.type : b \in Range(ai_insights)}]]

(******************************* main **************************************)
PostOutcomes == {"ok", "timeout", "conn_error", "http_error"}

Init ==
  /\ pc = "start"
  /\ dry_run \in BOOLEAN
  /\ env \in [db : BOOLEAN, api : BOOLEAN]
  /\ today \in FirstDay..(FirstDay + NumDays - 1)
  /\ db \in DataSources
  /\ conn = "none"
  /\ closeCount = 0
  /\ start_date = 0
  /\ end_date = 0
  /\ is_weekend_catchup = FALSE
  /\ q = 1
  /\ invoice_data = <<>>
  /\ estimate_data = <<>>
  /\ pm_daily_data = <<>>
  /\ bd_daily_data = <<>>
  /\ history = NoRequest
  /\ recently_shown = {}
  /\ today_types = <<>>
  /\ idx = 1
  /\ insights = <<>>
  /\ calls = <<>>
  /\ export_data = NoPayload
  /\ postCount = 0
  /\ delivery = "none"
  /\ exit_status = 0
  /\ day_of_week = <<>>
  /\ run = 1
  /\ store = {}
  /\ prev_surfaced = {}

\* mutant: the connection is closed at the end of the try block, not in finally
Finally_CloseOnSuccess(status) ==
  /\ pc' = "done"
  /\ exit_status' = status
  /\ conn' = IF conn = "open" /\ status = 0 THEN "closed" ELSE conn
  /\ closeCount' = IF conn = "open" /\ status = 0 THEN closeCount + 1 ELSE closeCount

\* mutant: the except clause logs and does not call sys.exit(1)
Finally_NoExit(status) ==
  /\ pc' = "done"
  /\ exit_status' = 0
  /\ conn' = IF conn = "open" THEN "closed" ELSE conn
  /\ closeCount' = IF conn = "open" THEN closeCount + 1 ELSE closeCount

\* except Exception: sys.exit(1) / normal end; finally: if conn: conn.close()
Finally(status) ==
  /\ pc' = "done"
  /\ exit_status' = status
  /\ conn' = IF conn = "open" THEN "closed" ELSE conn
  /\ closeCount' = IF conn = "open" THEN closeCount + 1 ELSE closeCount

\* conn = connect_to_printsmith(): get_connection_config or psycopg2.connect may raise
Connect ==
  /\ pc = "start"
  /\ \E connected \in BOOLEAN :
       IF env.db /\ connected
       THEN /\ conn' = "open"
            /\ pc' = "period"
            /\ UNCHANGED <<exit_status, closeCount>>
       ELSE Finally(1)
  /\ UNCHANGED <<pm_daily_data, bd_daily_data, day_of_week, run, store, prev_surfaced,
                 dry_run, env, today, db, start_date, end_date, is_weekend_catchup, q,
                 invoice_data, estimate_data, history, recently_shown, today_types,
                 idx, insights, calls, export_data, postCount, delivery>>

ResolvePeriod ==
  /\ pc = "period"
  /\ start_date' = get_target_date_range(today).start_date
  /\ end_date' = get_target_date_range(today).end_date
  /\ is_weekend_catchup' = get_target_date_range(today).catchup
  /\ pc' = "core"
  /\ UNCHANGED <<pm_daily_data, bd_daily_data, day_of_week, run, store, prev_surfaced,
                 dry_run, env, today, db, conn, closeCount, q,
                 invoice_data, estimate_data, history, recently_shown, today_types,
                 idx, insights, calls, export_data, postCount, delivery, exit_status>>

\* the invoices of the period, highest subtotal first, of every account: the
\* list starts at the last account of the ring, a permanently-excluded one
get_completed_invoices == Table(Len(Ring) - 1)

Reverse(s) == [i \in 1..Len(s) |-> s[Len(s) - i + 1]]

\* 'top_estimates': estimates[:10], of every account: the estimates follow the
\* ring in the other direction
get_estimates_created == Take(Reverse(Table(0)), ESTIMATES_KEPT)

PM_NAMES == <<"Pat", "Quinn">>
BD_NAMES == <<"Blake", "Drew">>

\* the PMs with orders in the period, highest revenue first
get_daily_pm_performance ==
  [i \in 1..(db.rows % 3) |->
     [pm_name |-> PM_NAMES[i], completed_count |-> 3 - i,
      completed_revenue |-> db.amount * (3 - i)]]

\* the BDs with orders in the period, highest revenue first
get_daily_bd_performance ==
  [i \in 1..((db.rows + db.first) % 3) |->
     [bd_name |-> BD_NAMES[i], completed_count |-> 4 - i,
      completed_revenue |-> db.amount * (4 - i)]]

\* the eleven metrics and highlights queries, in the order main issues them;
\* the first fetches the invoices, the fourth the estimates; each re-raises
CoreQuery ==
  /\ pc = "core"
  /\ \E ok \in BOOLEAN :
       IF ok
       THEN /\ invoice_data' = IF q = 1 THEN get_completed_invoices ELSE invoice_data
            /\ estimate_data' = IF q = 4 THEN get_estimates_created ELSE estimate_data
            /\ pm_daily_data' = IF q = 8 THEN get_daily_pm_performance ELSE pm_daily_data
            /\ bd_daily_data' = IF q = 9 THEN get_daily_bd_performance ELSE bd_daily_data
            /\ q' = q + 1
            /\ pc' = IF q = NumCoreQueries THEN "fresh" ELSE "core"
            /\ UNCHANGED <<conn, closeCount, exit_status>>
       ELSE /\ Finally(1)
            /\ UNCHANGED <<invoice_data, estimate_data, pm_daily_data, bd_daily_data, q>>
  /\ UNCHANGED <<day_of_week, run, store, prev_surfaced, dry_run, env, today, db, start_date, end_date, is_weekend_catchup,
                 history, recently_shown, today_types,
                 idx, insights, calls, export_data, postCount, delivery>>

\* mutant: the dry-run test around the history request is missing
SkipHistory_IgnoreDryRun == ~env.api

\* no request is made in a dry run, nor when the API URL or secret is not set
SkipHistory == dry_run \/ ~env.api

\* recently_shown = set(); if not args.dry_run: recently_shown = get_recently_shown_accounts(14)
\* (which returns set() without a request when the API URL or secret is not set)
FetchRecentlyShown ==
  /\ pc = "fresh"
  /\ IF SkipHistory
     THEN /\ recently_shown' = {}
          /\ UNCHANGED history
     ELSE \E resp \in HistoryResponses :
            /\ history' = resp
            /\ recently_shown' = get_recently_shown_accounts(resp)
  /\ pc' = "rotate"
  /\ UNCHANGED <<pm_daily_data, bd_daily_data, day_of_week, run, store, prev_surfaced,
                 dry_run, env, today, db, conn, closeCount, start_date, end_date,
                 is_weekend_catchup, q, invoice_data, estimate_data, today_types,
                 idx, insights, calls, export_data, postCount, delivery, exit_status>>

\* if day_of_week is None: day_of_week = datetime.now().weekday()
\* (the argument is <<>> for None, <<d>> for the integer d; main passes none)
DayOfWeek == IF day_of_week = <<>> THEN weekday(today) ELSE day_of_week[1]

\* get_ai_insights up to its loop
StartInsights ==
  /\ pc = "rotate"
  /\ today_types' = TodayTypes(DayOfWeek)
  /\ insights' = <<>>
  /\ idx' = 1
  /\ pc' = "insights"
  /\ UNCHANGED <<pm_daily_data, bd_daily_data, day_of_week, run, store, prev_surfaced,
                 dry_run, env, today, db, conn, closeCount, start_date, end_date,
                 is_weekend_catchup, q, invoice_data, estimate_data, history,
                 recently_shown, calls, export_data, postCount, delivery, exit_status>>

\* mutant: a generator that yields nothing is called again
NextIndex_RetryOnNone(i, result) == IF result = None THEN i ELSE i + 1

\* mutant: the loop is left at the first generator that yields nothing
NextIndex_StopOnNone(i, result) ==
  IF result = None THEN Len(today_types) + 1 ELSE i + 1

\* after the generator for today_types[i] returned result
NextIndex(i, result) == i + 1

\* one iteration of the loop of get_ai_insights; after the last one it returns
RunInsight ==
  /\ pc = "insights"
  /\ idx <= Len(today_types)
  /\ \E fail \in FailPoints :
       LET t == today_types[idx]
           result == CallInsight(t, recently_shown, fail)
       IN  /\ insights' = Gathered(insights, result)
           /\ calls' = Append(calls, [type |-> t,
                                      filter |-> AllExcluded(recently_shown),
                                      raised |-> Raises(t, recently_shown, fail),
                                      result |-> result])
           /\ idx' = NextIndex(idx, result)
           /\ recently_shown' = ExcludeArgAfter(recently_shown)
           /\ pc' = IF NextIndex(idx, result) > Len(today_types) THEN "assemble" ELSE "insights"
  /\ UNCHANGED <<pm_daily_data, bd_daily_data, day_of_week, run, store, prev_surfaced,
                 dry_run, env, today, db, conn, closeCount, start_date, end_date,
                 is_weekend_catchup, q, invoice_data, estimate_data, history,
                 today_types, export_data, postCount, delivery, exit_status>>

\* mutant: the payload is assembled before the generator loop has finished
Assemble_Early ==
  /\ pc \in {"insights", "assemble"}
  /\ export_data' = assemble_export_data(invoice_data, estimate_data, insights,
                                        pm_daily_data, bd_daily_data)
  /\ pc' = "deliver"
  /\ UNCHANGED <<pm_daily_data, bd_daily_data, day_of_week, run, store, prev_surfaced,
                 dry_run, env, today, db, conn, closeCount, start_date, end_date,
                 is_weekend_catchup, q, invoice_data, estimate_data, history,
                 recently_shown, today_types, idx, insights, calls, postCount,
                 delivery, exit_status>>

Assemble ==
  /\ pc = "assemble"
  /\ export_data' = assemble_export_data(invoice_data, estimate_data, insights,
                                        pm_daily_data, bd_daily_data)
  /\ pc' = "deliver"
  /\ UNCHANGED <<pm_daily_data, bd_daily_data, day_of_week, run, store, prev_surfaced,
                 dry_run, env, today, db, conn, closeCount, start_date, end_date,
                 is_weekend_catchup, q, invoice_data, estimate_data, history,
                 recently_shown, today_types, idx, insights, calls, postCount,
                 delivery, exit_status>>

\* mutant: the payload is posted in a dry run as well
Deliver_PostInDryRun ==
  /\ pc = "deliver"
  /\ IF dry_run
     THEN /\ delivery' = "printed"
          /\ Finally(0)
          /\ postCount' = postCount + 1
     ELSE IF ~env.api
     THEN /\ delivery' = "config_error"
          /\ Finally(1)
          /\ UNCHANGED postCount
     ELSE \E outcome \in PostOutcomes :
            /\ delivery' = outcome
            /\ postCount' = postCount + 1
            /\ Finally(IF outcome = "ok" THEN 0 ELSE 1)
  /\ UNCHANGED <<pm_daily_data, bd_daily_data, day_of_week, run, store, prev_surfaced,
                 dry_run, env, today, db, start_date, end_date,
                 is_weekend_catchup, q, invoice_data, estimate_data, history,
                 recently_shown, today_types, idx, insights, calls, export_data>>

\* mutant: a failed POST is sent a second time
Deliver_RetryOnce ==
  /\ pc = "deliver"
  /\ IF dry_run
     THEN /\ delivery' = "printed"
          /\ Finally(0)
          /\ UNCHANGED postCount
     ELSE IF ~env.api
     THEN /\ delivery' = "config_error"
          /\ Finally(1)
          /\ UNCHANGED postCount
     ELSE \E outcome \in PostOutcomes :
            /\ delivery' = outcome
            /\ postCount' = IF outcome = "ok" THEN postCount + 1 ELSE postCount + 2
            /\ Finally(IF outcome = "ok" THEN 0 ELSE 1)
  /\ UNCHANGED <<pm_daily_data, bd_daily_data, day_of_week, run, store, prev_surfaced,
                 dry_run, env, today, db, start_date, end_date,
                 is_weekend_catchup, q, invoice_data, estimate_data, history,
                 recently_shown, today_types, idx, insights, calls, export_data>>

\* if args.dry_run: print(...) else: post_to_api(export_data), which raises
\* EnvironmentError before any request when the URL or secret is not set
Deliver ==
  /\ pc = "deliver"
  /\ IF dry_run
     THEN /\ delivery' = "printed"
          /\ Finally(0)
          /\ UNCHANGED postCount
     ELSE IF ~env.api
     THEN /\ delivery' = "config_error"
          /\ Finally(1)
          /\ UNCHANGED postCount
     ELSE \E outcome \in PostOutcomes :
            /\ delivery' = outcome
            /\ postCount' = postCount + 1
            /\ Finally(IF outcome = "ok" THEN 0 ELSE 1)
  /\ UNCHANGED <<pm_daily_data, bd_daily_data, day_of_week, run, store, prev_surfaced,
                 dry_run, env, today, db, start_date, end_date,
                 is_weekend_catchup, q, invoice_data, estimate_data, history,
                 recently_shown, today_types, idx, insights, calls, export_data>>

Next ==
  \/ Connect
  \/ ResolvePeriod
  \/ CoreQuery
  \/ FetchRecentlyShown
  \/ StartInsights
  \/ RunInsight
  \/ Assemble
  \/ Deliver

Spec == Init /\ [][Next]_vars

(********************* get_ai_insights called directly *********************)
\* the values a caller passes as day_of_week: none, or an integer, inside or
\* outside the rotation table
DayArgs == {<<>>} \cup {<<d>> : d \in (-1)..7}

\* a call of get_ai_insights(conn, day_of_week, exclude_account_ids) on an open
\* connection
InitInsights ==
  /\ pc = "rotate"
  /\ dry_run = FALSE
  /\ env = [db |-> TRUE, api |-> TRUE]
  /\ day_of_week \in DayArgs
  /\ today \in FirstDay..(FirstDay + NumDays - 1)
  /\ day_of_week # <<>> => today = FirstDay
  /\ db \in DataSources
  /\ conn = "open"
  /\ closeCount = 0
  /\ start_date = 0
  /\ end_date = 0
  /\ is_weekend_catchup = FALSE
  /\ q = NumCoreQueries + 1
  /\ invoice_data = <<>>
  /\ estimate_data = <<>>
  /\ pm_daily_data = <<>>
  /\ bd_daily_data = <<>>
  /\ history = NoRequest
  /\ recently_shown \in {Range(l) : l \in IdLists}
  /\ today_types = <<>>
  /\ idx = 1
  /\ insights = <<>>
  /\ calls = <<>>
  /\ export_data = NoPayload
  /\ postCount = 0
  /\ delivery = "none"
  /\ exit_status = 0
  /\ run = 1
  /\ store = {}
  /\ prev_surfaced = {}

NextInsights ==
  \/ StartInsights
  \/ RunInsight

SpecInsights == InitInsights /\ [][NextInsights]_vars

(************************* two consecutive runs ****************************)
RECURSIVE SetToSeq(_)
SetToSeq(S) ==
  IF S = {} THEN <<>>
  ELSE LET m == CHOOSE x \in S : \A y \in S : x <= y
       IN  <<m>> \o SetToSeq(S \ {m})

\* the history service answers with the account ids it was given by the last
\* delivered payload
StoredResponse ==
  [status |-> "ok", body |-> "object", ids |-> [t |-> "list", v |-> SetToSeq(store)],
   names |-> "strings"]

FetchStoredRecentlyShown ==
  /\ pc = "fresh"
  /\ ~SkipHistory
  /\ history' = StoredResponse
  /\ recently_shown' = get_recently_shown_accounts(StoredResponse)
  /\ pc' = "rotate"
  /\ UNCHANGED <<pm_daily_data, bd_daily_data, day_of_week, run, store, prev_surfaced,
                 dry_run, env, today, db, conn,
                 closeCount, start_date, end_date, is_weekend_catchup, q, invoice_data,
                 estimate_data, today_types, idx, insights, calls, export_data,
                 postCount, delivery, exit_status>>

\* the accounts a payload surfaces: those of its highlights and of its insight items
Surfaced(payload) ==
  {payload.highlights[i].account_id : i \in 1..Len(payload.highlights)}
  \cup UNION {{b.items[j].account_id : j \in 1..Len(b.items)} : b \in Range(payload.aiInsights)}

\* the first run has delivered its payload; the script is started again the next
\* day on the same data source, the history service holding what was delivered
SecondRun ==
  /\ pc = "done"
  /\ delivery = "ok"
  /\ run = 1
  /\ run' = 2
  /\ store' = export_data.shownInsights.accountIds
  /\ prev_surfaced' = Surfaced(export_data) \ {NULL}
  /\ today' = today + 1
  /\ pc' = "start"
  /\ conn' = "none"
  /\ closeCount' = 0
  /\ start_date' = 0
  /\ end_date' = 0
  /\ is_weekend_catchup' = FALSE
  /\ q' = 1
  /\ invoice_data' = <<>>
  /\ estimate_data' = <<>>
  /\ pm_daily_data' = <<>>
  /\ bd_daily_data' = <<>>
  /\ history' = NoRequest
  /\ recently_shown' = {}
  /\ today_types' = <<>>
  /\ idx' = 1
  /\ insights' = <<>>
  /\ calls' = <<>>
  /\ export_data' = NoPayload
  /\ postCount' = 0
  /\ delivery' = "none"
  /\ exit_status' = 0
  /\ UNCHANGED <<day_of_week, dry_run, env, db>>

InitRuns == Init /\ ~dry_run /\ env.db /\ env.api

NextRuns ==
  \/ Connect
  \/ ResolvePeriod
  \/ CoreQuery
  \/ FetchStoredRecentlyShown
  \/ StartInsights
  \/ RunInsight
  \/ Assemble
  \/ Deliver
  \/ SecondRun

SpecRuns == InitRuns /\ [][NextRuns]_vars

(***************************************************************************)
(* Properties                                                              *)
(***************************************************************************)
ExclusionSet == EXCLUDED_ACCOUNT_IDS \cup recently_shown

HighlightAccountIds == {h.account_id : h \in Range(export_data.highlights)} \ {NULL}

ItemAccountIds(blocks) == UNION {{it.account_id : it \in Range(b.items)} : b \in Range(blocks)}

TableAccountIds == {Table(0)[i].account_id : i \in 1..db.rows}

PeriodResolved == conn # "none" /\ pc \notin {"start", "period"}

\* get_ai_insights has returned its list
InsightsReturned == pc \in {"assemble", "deliver"} \/ (pc = "done" /\ delivery # "none")

Results == [i \in 1..Len(calls) |-> calls[i].result]

\* C1 (as stated): every account id of an emitted highlight or of an item of an
\* emitted insight block is absent from EXCLUDED_ACCOUNT_IDS united with the
\* recently shown accounts of the run.
C1_ShownOutsideExclusionSet ==
  export_data.assembled =>
    (HighlightAccountIds \cup ItemAccountIds(export_data.aiInsights)) \cap ExclusionSet = {}

\* C1 (amended): every account id of an item of an insight block is absent from
\* EXCLUDED_ACCOUNT_IDS united with the recently shown accounts of the run, and
\* every account id of an emitted highlight is absent from EXCLUDED_ACCOUNT_IDS
\* (a highlight may feature a recently shown account).
C1_InsightsFreshHighlightsNotExcluded ==
  /\ ItemAccountIds(insights) \cap ExclusionSet = {}
  /\ export_data.assembled =>
       /\ ItemAccountIds(export_data.aiInsights) \cap ExclusionSet = {}
       /\ HighlightAccountIds \cap EXCLUDED_ACCOUNT_IDS = {}

C1_Witness ==
  /\ export_data.assembled
  /\ \E i \in 1..Len(export_data.highlights) : export_data.highlights[i].account_id = NULL
  /\ TableAccountIds \cap recently_shown # {}
  /\ HighlightAccountIds \cap recently_shown # {}
  /\ ItemAccountIds(export_data.aiInsights) # {}

\* C2: on a Monday get_target_date_range returns start = date-3, end = date-1 and
\* the catch-up flag; on any other weekday start = end = date-1 and no flag; in
\* all cases start <= end.
C2_TargetDateRange ==
  PeriodResolved =>
    /\ start_date <= end_date
    /\ IF weekday(today) = 0
       THEN start_date = today - 3 /\ end_date = today - 1 /\ is_weekend_catchup
       ELSE start_date = today - 1 /\ end_date = today - 1 /\ ~is_weekend_catchup

C2_Witness == PeriodResolved /\ weekday(today) = 0 /\ end_date - start_date = 2

\* C3: a generator returns None or a block with between 1 and 5 items, also when
\* its query or a row raises part-way; no block without items is in the list
\* get_ai_insights builds.
C3_BlockHasOneToFiveItems ==
  /\ \A i \in 1..Len(calls) :
       calls[i].result = None \/ Len(calls[i].result.items) \in 1..5
  /\ \A i \in 1..Len(insights) : Len(insights[i].items) \in 1..5

C3_Witness ==
  /\ \E i \in 1..Len(calls) : calls[i].raised /\ calls[i].result # None
  /\ \E i \in 1..Len(calls) : calls[i].raised /\ calls[i].result = None
  /\ \E i \in 1..Len(insights) : Len(insights[i].items) = 5 /\ db.rows > 5

\* C4: a generator that fails does not stop the batch: every type of the day's
\* list is invoked, in order, the blocks of the others are returned, and
\* get_ai_insights does not raise (past the core queries a run ends only in
\* the delivery step).
C4_FailureDoesNotAbortBatch ==
  /\ pc = "insights" =>
       [i \in 1..Len(calls) |-> calls[i].type] = SubSeq(today_types, 1, idx - 1)
  /\ InsightsReturned =>
       /\ [i \in 1..Len(calls) |-> calls[i].type] = today_types
       /\ insights = SelectSeq(Results, LAMBDA r : r # None)
  /\ (pc = "done" /\ q > NumCoreQueries) => delivery # "none"

C4_Witness ==
  /\ InsightsReturned
  /\ \E i \in 1..Len(calls) : \E j \in (i+1)..Len(calls) :
       /\ calls[i].raised /\ calls[i].result = None
       /\ calls[j].result # None
       /\ \E k \in 1..Len(insights) : insights[k] = calls[j].result

\* C5 (as stated): a generator in which an exception occurs, in the query or
\* while converting any fetched row, yields no insight block.
C5_FailedGeneratorContributesNothing ==
  \A i \in 1..Len(calls) : calls[i].raised => calls[i].result = None

\* C6: when the history request fails by connection error, timeout or non-2xx
\* status, get_recently_shown_accounts returns the empty set and the run goes
\* on to insight generation and assembly.
HistoryFailed == history.status \in {"conn_error", "timeout", "http_error"}

C6_HistoryFailureGivesEmptySet ==
  HistoryFailed =>
    /\ recently_shown = {}
    /\ pc # "fresh"
    /\ pc = "done" => (export_data.assembled /\ Len(calls) = Len(today_types))

C6_Witness ==
  /\ history.status = "http_error"
  /\ history.ids.t = "list" /\ Len(history.ids.v) > 0 /\ history.names = "strings"
  /\ export_data.assembled
  /\ Len(insights) > 0

\* C7 (as stated): a 2xx history response with a malformed body (not JSON, not an
\* object, accountIds null, a string or a number) gives the empty set.
Malformed(resp) ==
  \/ resp.body \in {"not_json", "not_object"}
  \/ resp.ids.t \in {"null", "string", "number"}
  \/ resp.names = "non_strings"

C7_MalformedBodyGivesEmptySet ==
  (history.status = "ok" /\ Malformed(history)) => recently_shown = {}

\* C8: in a run whose history request times out every generator filters exactly
\* EXCLUDED_ACCOUNT_IDS, the payload is assembled and posted, and the run fails
\* only if the delivery itself fails.
C8_TimeoutRunCompletes ==
  history.status = "timeout" =>
    /\ \A i \in 1..Len(calls) : calls[i].filter = {20960, 17204}
    /\ pc = "done" =>
         /\ export_data.assembled
         /\ postCount = 1
         /\ (exit_status = 1) <=> (delivery # "ok")

C8_Witness ==
  /\ history.status = "timeout"
  /\ pc = "done" /\ delivery = "ok" /\ exit_status = 0
  /\ Len(calls) > 0
  /\ Len(insights) > 0

\* C9: in a dry run no request is made to the history endpoint and the set of
\* recently shown accounts passed to get_ai_insights is empty.
C9_DryRunSkipsHistory ==
  dry_run =>
    /\ history = NoRequest
    /\ recently_shown = {}
    /\ \A i \in 1..Len(calls) : calls[i].filter = EXCLUDED_ACCOUNT_IDS

C9_Witness == dry_run /\ env.api /\ pc = "done" /\ delivery = "printed" /\ Len(calls) > 0

\* C10: for every weekday 0..6 the rotation table gives a non-empty list of keys
\* of INSIGHT_FUNCTIONS, and each of the 5 insight types is in the list of some
\* weekday; the list a run attempts is the table's entry for its weekday.
C10_RotationTable ==
  /\ Cardinality(Range(INSIGHT_FUNCTIONS)) = 5
  /\ \A d \in 0..6 :
       /\ Len(TodayTypes(d)) >= 1
       /\ Range(TodayTypes(d)) \subseteq Range(INSIGHT_FUNCTIONS)
  /\ \A t \in Range(INSIGHT_FUNCTIONS) : \E d \in 0..6 : t \in Range(TodayTypes(d))
  /\ pc = "insights" =>
       /\ Len(today_types) >= 1
       /\ Range(today_types) \subseteq Range(INSIGHT_FUNCTIONS)

C10_Witness ==
  /\ pc = "insights"
  /\ weekday(today) = 1
  /\ today_types = <<"lapsed_accounts", "past_due_accounts">>

\* the first n records of a list that do not belong to account 20960 or 17204
FirstAllowed(records, n) ==
  LET ok == SelectSeq(records, LAMBDA r : r.account_id \notin {20960, 17204})
  IN  [i \in 1..(IF Len(ok) < n THEN Len(ok) ELSE n) |-> ok[i].account_id]

HighlightsOfType(t) ==
  LET hs == SelectSeq(export_data.highlights, LAMBDA h : h.type = t)
  IN  [i \in 1..Len(hs) |-> hs[i].account_id]

\* C11: no highlight is built from a record of an account in
\* EXCLUDED_ACCOUNT_IDS, and an excluded record takes none of the top-3 invoice
\* or top-2 estimate slots: the highlights are the first 3 invoices and the first
\* 2 estimates among the records of the other accounts.
C11_HighlightsSkipExcluded ==
  export_data.assembled =>
    /\ \A i \in 1..Len(export_data.highlights) :
         export_data.highlights[i].account_id \notin {20960, 17204}
    /\ HighlightsOfType("invoice") = FirstAllowed(invoice_data, 3)
    /\ HighlightsOfType("estimate") = FirstAllowed(estimate_data, 2)

C11_Witness ==
  /\ export_data.assembled
  /\ \E i \in 1..3 : i <= Len(invoice_data) /\ invoice_data[i].account_id \in {20960, 17204}
  /\ \E i \in 1..2 : i <= Len(estimate_data) /\ estimate_data[i].account_id \in {20960, 17204}
  /\ Len(HighlightsOfType("invoice")) = 3
  /\ Len(HighlightsOfType("estimate")) = 2

TopInvoiceExcluded ==
  Len(invoice_data) > 0 /\ invoice_data[1].account_id \in {20960, 17204}

\* C12 (as stated): when the top invoice belongs to a permanently-excluded
\* account it is not in highlights and biggestOrder is the next-highest invoice
\* of a non-excluded account, or none.
C12_BiggestOrderFallsThrough ==
  (export_data.assembled /\ TopInvoiceExcluded) =>
    /\ \A i \in 1..Len(export_data.highlights) :
         export_data.highlights[i].account_id \notin {20960, 17204}
    /\ [i \in 1..Len(export_data.biggestOrder) |-> export_data.biggestOrder[i].account_id]
         = FirstAllowed(invoice_data, 1)

\* C12 (amended): when the top invoice belongs to a permanently-excluded account
\* it is not in highlights, and biggestOrder is still built from that invoice,
\* the first entry of the invoice list.
C12_BiggestOrderIsTopInvoice ==
  (export_data.assembled /\ TopInvoiceExcluded) =>
    /\ \A i \in 1..Len(export_data.highlights) :
         export_data.highlights[i].account_id \notin {20960, 17204}
    /\ export_data.biggestOrder = <<invoice_data[1]>>

C12_Witness ==
  /\ export_data.assembled
  /\ TopInvoiceExcluded
  /\ Len(export_data.biggestOrder) = 1
  /\ Len(HighlightsOfType("invoice")) > 0

\* C13: shownInsights.accountIds is exactly the account ids of the records
\* emitted as highlights united with the account ids of all items of all
\* insight blocks of aiInsights.
C13_ShownIdsAreHighlightsAndItems ==
  export_data.assembled =>
    export_data.shownInsights.accountIds
      = (Range(HighlightsOfType("invoice")) \cup Range(HighlightsOfType("estimate"))
         \cup ItemAccountIds(export_data.aiInsights)) \ {NULL}

C13_Witness ==
  /\ export_data.assembled
  /\ Range(HighlightsOfType("estimate")) \ Range(HighlightsOfType("invoice")) # {}
  /\ Range(HighlightsOfType("invoice")) \ Range(HighlightsOfType("estimate")) # {}
  /\ ItemAccountIds(export_data.aiInsights) # {}

CoreQueryFailed == pc = "done" /\ conn = "closed" /\ q <= NumCoreQueries

\* C15: if a core metrics or highlights query fails, post_to_api is never called,
\* no payload is delivered and the process exits with a non-zero status.
C15_CoreFailureIsFatal ==
  CoreQueryFailed =>
    /\ postCount = 0
    /\ delivery = "none"
    /\ ~export_data.assembled
    /\ exit_status # 0

C15_Witness == CoreQueryFailed /\ q = 11 /\ ~dry_run /\ env.api

\* a data-source query has been executed
QueryExecuted == q > 1 \/ CoreQueryFailed \/ Len(calls) > 0

\* C16 (as stated): with connectivity or delivery configuration missing, a
\* non-dry-run run aborts before any data-source query is executed.
C16_MissingConfigAbortsBeforeQueries ==
  (~dry_run /\ (~env.db \/ ~env.api)) => ~QueryExecuted

\* C17: a failed delivery happens after the payload was assembled, ends the run
\* with a non-zero status, and the POST was attempted exactly once.
DeliveryFailed == delivery \in {"timeout", "conn_error", "http_error"}

C17_DeliveryFailureSurfacedNoRetry ==
  /\ postCount <= 1
  /\ postCount = 1 => export_data.assembled
  /\ DeliveryFailed =>
       /\ export_data.assembled
       /\ pc = "done"
       /\ exit_status = 1
       /\ postCount = 1

C17_Witness == DeliveryFailed /\ delivery = "timeout" /\ Len(export_data.aiInsights) > 0

\* C18 (as stated): of two consecutive delivered runs, the second told by the
\* history service what the first delivered, the second surfaces (in highlights
\* or insight items) no account that the first surfaced.
C18_NothingSurfacedAgain ==
  (run = 2 /\ export_data.assembled) => Surfaced(export_data) \cap prev_surfaced = {}

\* C18 (amended): of two such runs, no insight item of the second run is of an
\* account that the first run surfaced in its highlights or insight items.
C18_NoInsightItemSurfacedAgain ==
  run = 2 =>
    /\ ItemAccountIds(insights) \cap prev_surfaced = {}
    /\ ItemAccountIds(export_data.aiInsights) \cap prev_surfaced = {}
    /\ pc \in {"rotate", "insights", "assemble", "deliver"} => recently_shown = prev_surfaced

C18_Witness ==
  /\ run = 2
  /\ delivery = "ok"
  /\ prev_surfaced \cap TableAccountIds # {}
  /\ ItemAccountIds(export_data.aiInsights) # {}

FallbackDay == day_of_week # <<>> /\ day_of_week[1] \notin 0..6

\* C19: get_ai_insights called with a day_of_week outside 0..6 attempts the five
\* insight types in the registry order (anniversary_reorders, lapsed_accounts,
\* past_due_accounts, hot_streak_accounts, high_value_estimates) and returns
\* whatever the generators do.
C19_UnmappedDayFallsBack ==
  (FallbackDay /\ pc # "rotate") =>
    LET all == <<"anniversary_reorders", "lapsed_accounts", "past_due_accounts",
                 "hot_streak_accounts", "high_value_estimates">>
    IN  /\ today_types = all
        /\ [i \in 1..Len(calls) |-> calls[i].type] = SubSeq(all, 1, Len(calls))
        /\ pc \in {"insights", "assemble"}
        /\ pc = "assemble" <=> Len(calls) = 5
        /\ exit_status = 0

C19_Witness ==
  /\ FallbackDay
  /\ pc = "assemble"
  /\ Len(calls) = 5
  /\ \E i \in 1..5 : calls[i].raised
  /\ Len(insights) > 0

\* C21: biggestOrder, topPM and topBD are each built from the first entry of
\* their list (invoices, PM daily performance, BD daily performance) and are
\* none exactly when that list is empty.
C21_TopEntriesAreFirstEntries ==
  export_data.assembled =>
    /\ Len(export_data.biggestOrder) = (IF Len(invoice_data) = 0 THEN 0 ELSE 1)
    /\ Len(export_data.topPM) = (IF Len(pm_daily_data) = 0 THEN 0 ELSE 1)
    /\ Len(export_data.topBD) = (IF Len(bd_daily_data) = 0 THEN 0 ELSE 1)
    /\ Len(invoice_data) > 0 =>
         /\ export_data.biggestOrder[1].account_id = invoice_data[1].account_id
         /\ export_data.biggestOrder[1].amount = invoice_data[1].amount
    /\ Len(pm_daily_data) > 0 =>
         /\ export_data.topPM[1].name = pm_daily_data[1].pm_name
         /\ export_data.topPM[1].ordersCompleted = pm_daily_data[1].completed_count
         /\ export_data.topPM[1].revenue = pm_daily_data[1].completed_revenue
    /\ Len(bd_daily_data) > 0 =>
         /\ export_data.topBD[1].name = bd_daily_data[1].bd_name
         /\ export_data.topBD[1].ordersCompleted = bd_daily_data[1].completed_count
         /\ export_data.topBD[1].revenue = bd_daily_data[1].completed_revenue

C21_Witness ==
  /\ export_data.assembled
  /\ Len(pm_daily_data) = 0
  /\ Len(bd_daily_data) = 1
  /\ Len(invoice_data) > 1
  /\ export_data.topPM = <<>>
  /\ export_data.topBD # <<>>

HotStreakRows == Query("hot_streak_accounts", AllExcluded(recently_shown))

\* the data of the scenario: the hot-streak query yields one account with
\* recent_count 5, prior_count 2 and recent_spend 1500, the anniversary query
\* yields no rows, and neither call raises
WednesdayScenario ==
  /\ DayOfWeek = 2
  /\ pc = "assemble"
  /\ Len(HotStreakRows) = 1
  /\ recent_count(HotStreakRows[1]) = 5
  /\ prior_count(HotStreakRows[1]) = 2
  /\ HotStreakRows[1].amount = 1500
  /\ Query("anniversary_reorders", AllExcluded(recently_shown)) = <<>>
  /\ \A i \in 1..Len(calls) : ~calls[i].raised

\* C22: on Wednesday (day_of_week 2) the attempted types are hot_streak_accounts
\* then anniversary_reorders; in the scenario get_ai_insights returns one block,
\* of type hot_streak_accounts, with one item whose detail is "5 orders (was 2)".
C22_WednesdayScenario ==
  /\ (DayOfWeek = 2 /\ pc # "rotate") =>
       today_types = <<"hot_streak_accounts", "anniversary_reorders">>
  /\ WednesdayScenario =>
       /\ [i \in 1..Len(calls) |-> calls[i].type]
            = <<"hot_streak_accounts", "anniversary_reorders">>
       /\ Len(insights) = 1
       /\ insights[1].type = "hot_streak_accounts"
       /\ Len(insights[1].items) = 1
       /\ insights[1].items[1].detail = "5 orders (was 2)"

C22_Witness == WednesdayScenario /\ Len(insights) = 1 /\ day_of_week = <<2>>

\* the order of the steps of main: from each position, the positions that may follow
StepOrder ==
  {<<"start", "period">>, <<"start", "done">>,
   <<"period", "core">>,
   <<"core", "core">>, <<"core", "fresh">>, <<"core", "done">>,
   <<"fresh", "rotate">>,
   <<"rotate", "insights">>,
   <<"insights", "insights">>, <<"insights", "assemble">>,
   <<"assemble", "deliver">>,
   <<"deliver", "done">>}

\* C23: the steps of a run occur in the order resolve period, fetch exclusions,
\* run the selected generators one after another, assemble, deliver; each at
\* most once, and what a step produced is not changed by a later step.
C23_StepsInOrder ==
  [][/\ <<pc, pc'>> \in StepOrder
     /\ pc # "period" => start_date' = start_date /\ end_date' = end_date
     /\ pc # "fresh" => recently_shown' = recently_shown /\ history' = history
     /\ pc = "insights" => Len(calls') = Len(calls) + 1 /\ idx' = idx + 1
     /\ pc # "insights" => calls' = calls
     /\ pc \notin {"rotate", "insights"} => insights' = insights
     /\ pc # "assemble" => export_data' = export_data
     /\ pc # "deliver" => delivery' = delivery /\ postCount' = postCount
     /\ pc' = "assemble" => Len(calls') = Len(today_types)]_vars

C23_Witness ==
  /\ pc = "done"
  /\ delivery = "ok"
  /\ history.status = "ok"
  /\ Len(calls) = 3
  /\ start_date # end_date

\* C24: every generator call of a run sends the data source the filter
\* EXCLUDED_ACCOUNT_IDS united with the exclude_account_ids argument, also when
\* the argument is empty; all calls of the run use the same filter, and no item
\* returned is of a filtered account.
C24_FilterIsUnionForEveryCall ==
  \A i \in 1..Len(calls) :
    /\ calls[i].filter = {20960, 17204} \cup recently_shown
    /\ \A j \in 1..Len(calls) : calls[j].filter = calls[i].filter
    /\ \A k \in 1..Len(calls[i].result.items) :
         calls[i].result.items[k].account_id \notin calls[i].filter

C24_Witness ==
  /\ Len(calls) = 3
  /\ recently_shown # {}
  /\ \A i \in 1..3 : calls[i].result # None

\* the value get_recently_shown_accounts returned to main (set() if not called)
OracleValue == IF history = NoRequest THEN {} ELSE get_recently_shown_accounts(history)

\* C25: once obtained, the set of recently shown accounts is left unchanged by
\* every generator call, successful or failing, and by assemble_export_data: it
\* still equals the value the freshness oracle returned.
C25_RecentlyShownUnchanged ==
  pc \in {"rotate", "insights", "assemble", "deliver", "done"} => recently_shown = OracleValue

C25_Witness ==
  /\ pc = "done"
  /\ export_data.assembled
  /\ recently_shown # {}
  /\ \E i \in 1..Len(calls) : calls[i].raised
  /\ \E i \in 1..Len(calls) : calls[i].result # None

\* C26: post_to_api is called at most once per run, only after the payload was
\* assembled, and never in a dry run, which only prints and makes no request.
C26_PostAtMostOnceNeverInDryRun ==
  /\ postCount \in {0, 1}
  /\ postCount = 1 => export_data.assembled /\ ~dry_run /\ pc = "done"
  /\ dry_run => postCount = 0 /\ history = NoRequest /\ delivery \in {"none", "printed"}

C26_Witness == dry_run /\ delivery = "printed" /\ pc = "done" /\ Len(export_data.aiInsights) > 0

\* position of an insight type in the list selected for the day
PosInToday(t) == CHOOSE k \in 1..Len(today_types) : today_types[k] = t

\* C27: the list get_ai_insights builds has at most one block per type, every
\* block's type is one of the types selected for the day, and the blocks are in
\* the order of their types in that list.
C27_BlocksFollowRotationOrder ==
  /\ \A i \in 1..Len(insights) : insights[i].type \in Range(today_types)
  /\ \A i, j \in 1..Len(insights) :
       i < j => /\ insights[i].type # insights[j].type
                /\ PosInToday(insights[i].type) < PosInToday(insights[j].type)

C27_Witness ==
  /\ pc = "assemble"
  /\ Len(insights) >= 2
  /\ Len(insights) < Len(calls)
  /\ calls[1].result = None

\* C28: a connection returned by connect_to_printsmith is closed exactly once
\* before the process ends, on every path: delivery, dry-run print, and any
\* failure (exit status 1).
C28_ConnectionClosedExactlyOnce ==
  /\ conn = "none" => closeCount = 0 /\ pc \in {"start", "done"}
  /\ conn = "open" => closeCount = 0 /\ pc # "done"
  /\ conn = "closed" => closeCount = 1 /\ pc = "done"

C28_Witness == pc = "done" /\ conn = "closed" /\ closeCount = 1 /\ delivery = "http_error"

\* the number of steps a run can still take
Rank ==
  CASE pc = "done"     -> 0
    [] pc = "deliver"  -> 1
    [] pc = "assemble" -> 2
    [] pc = "insights" -> 3 + (Len(today_types) + 1 - idx)
    [] pc = "rotate"   -> 4 + Len(INSIGHT_FUNCTIONS)
    [] pc = "fresh"    -> 5 + Len(INSIGHT_FUNCTIONS)
    [] pc = "core"     -> 6 + Len(INSIGHT_FUNCTIONS) + (NumCoreQueries + 1 - q)
    [] pc = "period"   -> 7 + Len(INSIGHT_FUNCTIONS) + NumCoreQueries
    [] pc = "start"    -> 8 + Len(INSIGHT_FUNCTIONS) + NumCoreQueries

\* the guard of some action of Next holds
StepPossible ==
  \/ pc \in {"start", "period", "core", "fresh", "rotate", "assemble", "deliver"}
  \/ pc = "insights" /\ idx <= Len(today_types)

\* C29: every run of main terminates when its external calls return or raise:
\* each step lowers the number of steps left, a step is possible until the run
\* has ended, and it ends with the payload posted or printed and status 0, or
\* with status 1.
C29_RunTerminates ==
  /\ [][Rank' < Rank]_vars
  /\ [](Rank >= 0)
  /\ [](pc # "done" => StepPossible)
  /\ [](pc = "done" => \/ exit_status = 0 /\ delivery \in {"ok", "printed"}
                       \/ exit_status = 1 /\ delivery \notin {"ok", "printed"})

C29_Witness == pc = "done" /\ exit_status = 1 /\ Len(calls) = 3 /\ delivery = "conn_error"

\* C30: shownInsights.accountIds of an assembled payload has no account of
\* EXCLUDED_ACCOUNT_IDS, whatever the invoices, estimates and insight blocks are
\* (the insight items respecting the filter the generators were given).
C30_ShownIdsExcludePermanent ==
  export_data.assembled => export_data.shownInsights.accountIds \cap {20960, 17204} = {}

C30_Witness ==
  /\ export_data.assembled
  /\ TopInvoiceExcluded
  /\ Len(estimate_data) > 0 /\ estimate_data[1].account_id \in {20960, 17204}
  /\ export_data.shownInsights.accountIds # {}
  /\ Len(export_data.aiInsights) > 0

====
